---- MODULE Spec2Model ----
(***************************************************************************)
(* Model of the credential-string generators of RachHavoc/tools:           *)
(*   smartpassgen.py       leet expansion, password variations, corpus,    *)
(*                         mask expansion and the main run                 *)
(*   generate_usernames.py username / e-mail templates, to_leet and the    *)
(*                         process_file batch loop                         *)
(* A Python str is modelled as a sequence of one-character strings, so     *)
(* that indexing, concatenation, split, strip and lower are computed and   *)
(* not assumed.  A call's outcome is a record: it returns a value or       *)
(* raises a named exception.                                               *)
(***************************************************************************)
EXTENDS Integers, Sequences, FiniteSets, TLC

VARIABLES
    pc,               \* position of the run that is modelled
    args,             \* the inputs of the run (function arguments / CLI options)
    out,              \* outcome of the call or run
    all_usernames,    \* process_file: accumulated set
    total_lines,      \* process_file: lines read
    processed_lines,  \* process_file: lines that produced usernames
    hist,             \* process_file: history of the lines read so far
    passwords,        \* smartpassgen main: accumulated set
    stdout            \* smartpassgen main: messages printed

vars == <<pc, args, out, all_usernames, total_lines, processed_lines,
          hist, passwords, stdout>>

(***************************************************************************)
(* Bounds of the model                                                     *)
(***************************************************************************)
MaxPwLen == 3

(***************************************************************************)
(* Python strings and outcomes                                             *)
(***************************************************************************)
ascii_uppercase ==
    <<"A","B","C","D","E","F","G","H","I","J","K","L","M",
      "N","O","P","Q","R","S","T","U","V","W","X","Y","Z">>

ascii_lowercase ==
    <<"a","b","c","d","e","f","g","h","i","j","k","l","m",
      "n","o","p","q","r","s","t","u","v","w","x","y","z">>

digits == <<"0","1","2","3","4","5","6","7","8","9">>

Range(s) == { s[i] : i \in DOMAIN s }

\* All sequences over S of length at most n.
SeqsUpTo(S, n) == UNION { [1..k -> S] : k \in 0..n }

\* str.lower() / str.upper() on one character (ASCII letters; others unchanged).
LowerChar(c) ==
    IF \E i \in 1..26 : ascii_uppercase[i] = c
    THEN ascii_lowercase[CHOOSE i \in 1..26 : ascii_uppercase[i] = c]
    ELSE c

UpperChar(c) ==
    IF \E i \in 1..26 : ascii_lowercase[i] = c
    THEN ascii_uppercase[CHOOSE i \in 1..26 : ascii_lowercase[i] = c]
    ELSE c

Lower(s) == [i \in 1..Len(s) |-> LowerChar(s[i])]

Upper(s) == [i \in 1..Len(s) |-> UpperChar(s[i])]

\* str.capitalize(): first character upper-cased, the rest lower-cased.
Capitalize(s) ==
    [i \in 1..Len(s) |-> IF i = 1 THEN UpperChar(s[i]) ELSE LowerChar(s[i])]

Return(v) == [kind |-> "return", exc |-> "", val |-> v]

Raise(e) == [kind |-> "raise", exc |-> e, val |-> {}]

NoResult == [kind |-> "none", exc |-> "", val |-> {}]

\* itertools.product(*parts): the tuples in lexicographic order, the last
\* position varying fastest; one empty tuple for no parts.
RECURSIVE Product(_)
Product(parts) ==
    IF parts = <<>> THEN << <<>> >>
    ELSE LET h    == Head(parts)
             rest == Product(Tail(parts))
             n    == Len(rest)
         IN  IF n = 0 THEN <<>>
             ELSE [k \in 1..(Len(h) * n) |->
                      <<h[((k - 1) \div n) + 1]>> \o rest[((k - 1) % n) + 1]]

(***************************************************************************)
(* smartpassgen.py: generate_leet_variations                               *)
(***************************************************************************)
LEET_MAP ==
    ("a" :> <<"4", "@">>) @@ ("e" :> <<"3">>) @@ ("i" :> <<"1", "!">>) @@
    ("o" :> <<"0">>) @@ ("s" :> <<"5", "$">>) @@ ("t" :> <<"7">>)

\* Faulty variant: the table is looked up with the character itself, not its lower case.
LeetCharsCaseSensitive(password) ==
    [i \in 1..Len(password) |->
        IF password[i] \in DOMAIN LEET_MAP
        THEN <<password[i]>> \o LEET_MAP[password[i]]
        ELSE <<password[i]>>]

\* The list `chars` built by the loop: per character, itself followed by
\* the table's alternatives for its lower case.
LeetChars(password) ==
    [i \in 1..Len(password) |->
        IF LowerChar(password[i]) \in DOMAIN LEET_MAP
        THEN <<password[i]>> \o LEET_MAP[LowerChar(password[i])]
        ELSE <<password[i]>>]

generate_leet_variations(password) == Range(Product(LeetChars(password)))

LeetAlphabet == {"a", "A", "e", "s", "T", "x"}

LeetInputs == SeqsUpTo(LeetAlphabet, MaxPwLen)

\* What has been read so far, kept to state what the batch owes: the union
\* of the variants of the lines with two tokens or more, their number,
\* whether a line was skipped, whether one was processed after that, and
\* whether the end of the file was met.
C10_NoHistory ==
    [expected |-> {}, nvalid |-> 0, skipped |-> FALSE, resumed |-> FALSE,
     eof |-> FALSE]

\* The variables a run of another program leaves at their initial values.
Idle ==
    /\ all_usernames = {}
    /\ total_lines = 0
    /\ processed_lines = 0
    /\ hist = C10_NoHistory
    /\ passwords = {}
    /\ stdout = <<>>

IdleUnchanged ==
    UNCHANGED <<all_usernames, total_lines, processed_lines, hist, passwords,
                stdout>>

InitLeet ==
    /\ pc = "call"
    /\ args \in [password : LeetInputs]
    /\ out = NoResult
    /\ Idle

CallLeet ==
    /\ pc = "call"
    /\ out' = Return(generate_leet_variations(args.password))
    /\ pc' = "done"
    /\ UNCHANGED args
    /\ IdleUnchanged

SpecLeet == InitLeet /\ [][CallLeet]_vars

\* ---- C1 -----------------------------------------------------------------
\* alts(c) of the claim: the character itself and the table's entries for
\* its lower case.
C1_Alts(c) ==
    {c} \cup (IF LowerChar(c) \in DOMAIN LEET_MAP
              THEN Range(LEET_MAP[LowerChar(c)]) ELSE {})

RECURSIVE C1_SizeProduct(_)
C1_SizeProduct(s) ==
    IF s = <<>> THEN 1
    ELSE Cardinality(C1_Alts(Head(s))) * C1_SizeProduct(Tail(s))

\* C1: generate_leet_variations(s) is exactly the set of strings that pick,
\* at every position, one element of alts(s[i]): every returned string is
\* such a pick and the number of returned strings is the product of the
\* |alts(s[i])| (so none is missing); the empty string gives {""}.
C1_LeetIsFullProduct ==
    pc = "done" =>
        LET s == args.password IN
        /\ out.kind = "return"
        /\ \A t \in out.val :
              /\ Len(t) = Len(s)
              /\ \A i \in 1..Len(s) : t[i] \in C1_Alts(s[i])
        /\ Cardinality(out.val) = C1_SizeProduct(s)
        /\ (s = <<>> => out.val = { <<>> })

\* An input with an upper-case mapped letter: "As" has 3 * 3 variants, one
\* of them "A$".
C1_Witness ==
    /\ pc = "done"
    /\ args.password = <<"A", "s">>
    /\ Cardinality(out.val) = 9
    /\ <<"A", "$">> \in out.val

(***************************************************************************)
(* generate_usernames.py: to_leet, generate_usernames,                     *)
(* generate_email_variants                                                 *)
(***************************************************************************)
MaxNameLen == 2

MaxDomainLen == 2

USER_LEET_MAP ==
    ("a" :> "4") @@ ("e" :> "3") @@ ("i" :> "1") @@
    ("o" :> "0") @@ ("s" :> "5") @@ ("t" :> "7")

\* Faulty variant: only the first mapped character is replaced.
ToLeetFirstOnly(word) ==
    [i \in 1..Len(word) |->
        IF /\ word[i] \in DOMAIN USER_LEET_MAP
           /\ \A j \in 1..(i - 1) : word[j] \notin DOMAIN USER_LEET_MAP
        THEN USER_LEET_MAP[word[i]] ELSE word[i]]

\* "".join(LEET_MAP.get(c, c) for c in word)
to_leet(word) ==
    [i \in 1..Len(word) |->
        IF word[i] \in DOMAIN USER_LEET_MAP THEN USER_LEET_MAP[word[i]] ELSE word[i]]

\* The twelve usernames.add(...) calls; first and last are non-empty here.
UsernameTemplates(first, last) ==
    { first \o <<".">> \o last,
      <<first[1]>> \o last,
      <<first[1]>> \o <<".">> \o last,
      first \o <<last[1]>>,
      first \o <<"_">> \o last,
      first \o last,
      last \o <<first[1]>>,
      first,
      last,
      <<first[1]>> \o last \o <<"1">>,
      first \o <<".">> \o last \o <<"9", "9">>,
      first \o last \o <<"1", "2", "3">> }

\* first[0] (line 29) and last[0] (line 31) raise IndexError on an empty
\* string; nothing validates the names before.
generate_usernames(first0, last0, leet) ==
    LET first == Lower(first0)
        last  == Lower(last0)
    IN  IF first = <<>> THEN Raise("IndexError")
        ELSE IF last = <<>> THEN Raise("IndexError")
        ELSE LET usernames == UsernameTemplates(first, last)
             IN  Return(IF leet
                        THEN usernames \cup { to_leet(u) : u \in usernames }
                        ELSE usernames)

\* The ten emails.add(...) calls; first and last are non-empty here.
EmailTemplates(first, last, domain) ==
    LET at == <<"@">> \o domain IN
    { first \o <<".">> \o last \o at,
      <<first[1]>> \o last \o at,
      <<first[1]>> \o <<".">> \o last \o at,
      first \o <<last[1]>> \o at,
      first \o last \o at,
      last \o <<first[1]>> \o at,
      first \o at,
      last \o at,
      first \o <<".">> \o last \o <<"1">> \o at,
      <<first[1]>> \o last \o <<"9", "9">> \o at }

\* str.split(sep) with an explicit one-character separator: cut at every
\* occurrence, empty pieces kept.
RECURSIVE SplitOn(_, _)
SplitOn(s, sep) ==
    IF \A i \in 1..Len(s) : s[i] # sep THEN <<s>>
    ELSE LET k == CHOOSE i \in 1..Len(s) :
                     s[i] = sep /\ \A j \in 1..(i - 1) : s[j] # sep
         IN  <<SubSeq(s, 1, k - 1)>> \o SplitOn(SubSeq(s, k + 1, Len(s)), sep)

\* `local, domain_part = email.split("@")` raises ValueError unless the
\* split gives exactly two pieces.
generate_email_variants(first0, last0, domain0, leet) ==
    LET first  == Lower(first0)
        last   == Lower(last0)
        domain == Lower(domain0)
    IN  IF first = <<>> THEN Raise("IndexError")
        ELSE IF last = <<>> THEN Raise("IndexError")
        ELSE LET emails == EmailTemplates(first, last, domain)
             IN  IF ~leet THEN Return(emails)
                 ELSE IF \E email \in emails : Len(SplitOn(email, "@")) # 2
                 THEN Raise("ValueError")
                 ELSE Return(emails \cup
                        { to_leet(SplitOn(email, "@")[1]) \o <<"@">>
                              \o SplitOn(email, "@")[2] : email \in emails })

NameAlphabet == {"a", "E", "d"}

DomainAlphabet == {"x", "e", "@"}

Names == SeqsUpTo(NameAlphabet, MaxNameLen)

Domains == SeqsUpTo(DomainAlphabet, MaxDomainLen)

UsernameCalls ==
    [fn : {"generate_usernames"}, first : Names, last : Names,
     domain : {<<>>}, leet : BOOLEAN]

EmailCalls ==
    [fn : {"generate_email_variants"}, first : Names, last : Names,
     domain : Domains, leet : BOOLEAN]

InitNames ==
    /\ pc = "call"
    /\ args \in UsernameCalls \cup EmailCalls
    /\ out = NoResult
    /\ Idle

CallUsernames ==
    /\ pc = "call"
    /\ args.fn = "generate_usernames"
    /\ out' = generate_usernames(args.first, args.last, args.leet)
    /\ pc' = "done"
    /\ UNCHANGED args
    /\ IdleUnchanged

CallEmails ==
    /\ pc = "call"
    /\ args.fn = "generate_email_variants"
    /\ out' = generate_email_variants(args.first, args.last, args.domain, args.leet)
    /\ pc' = "done"
    /\ UNCHANGED args
    /\ IdleUnchanged

NextNames == CallUsernames \/ CallEmails

SpecNames == InitNames /\ [][NextNames]_vars

\* ---- C2 -----------------------------------------------------------------
\* Every string obtained from u by keeping or replacing, independently,
\* each leet-mapped character.
C2_FullExpansion(u) ==
    Range(Product([i \in 1..Len(u) |->
        IF u[i] \in DOMAIN USER_LEET_MAP
        THEN <<u[i], USER_LEET_MAP[u[i]]>> ELSE <<u[i]>>]))

\* C2 as claimed: with leet set, generate_usernames returns the templates
\* together with the full substitution expansion of every template.
C2_LeetIsFullExpansion ==
    (pc = "done" /\ args.fn = "generate_usernames" /\ args.leet
        /\ out.kind = "return") =>
        LET T == UsernameTemplates(Lower(args.first), Lower(args.last))
        IN  out.val = T \cup UNION { C2_FullExpansion(u) : u \in T }

\* The one string in which every mapped character of u is replaced.
C2_AllReplaced(u) ==
    [i \in 1..Len(u) |->
        CASE u[i] = "a" -> "4" [] u[i] = "e" -> "3" [] u[i] = "i" -> "1"
          [] u[i] = "o" -> "0" [] u[i] = "s" -> "5" [] u[i] = "t" -> "7"
          [] OTHER -> u[i]]

\* C2 amended: with leet set, generate_usernames raises IndexError when
\* first or last is empty and otherwise returns the templates together
\* with, for every template, the single string in which every leet-mapped
\* character is replaced, and nothing else.
C2_LeetIsAllReplaced ==
    (pc = "done" /\ args.fn = "generate_usernames" /\ args.leet) =>
        IF args.first = <<>> \/ args.last = <<>>
        THEN out.kind = "raise" /\ out.exc = "IndexError"
        ELSE LET T == UsernameTemplates(Lower(args.first), Lower(args.last))
             IN  /\ out.kind = "return"
                 /\ out.val = T \cup { C2_AllReplaced(u) : u \in T }

\* jane-like case with two mapped letters: "a.e" gives "4.3" but neither
\* "4.e" nor "a.3".
C2_Witness ==
    /\ pc = "done"
    /\ args.fn = "generate_usernames"
    /\ args.leet
    /\ args.first = <<"a">>
    /\ args.last = <<"E">>
    /\ <<"4", ".", "3">> \in out.val
    /\ <<"4", ".", "e">> \notin out.val
    /\ <<"a", ".", "3">> \notin out.val

\* ---- C3 -----------------------------------------------------------------
\* C3 as claimed, for non-empty names (an empty name is C4's case): with
\* leet set, generate_email_variants completes without error for every
\* domain, and every address is a local part without '@', an '@', and the
\* lower-cased domain unchanged.
C3_LeetKeepsDomain ==
    (pc = "done" /\ args.fn = "generate_email_variants" /\ args.leet
        /\ args.first # <<>> /\ args.last # <<>>) =>
        /\ out.kind = "return"
        /\ \A e \in out.val :
              \E k \in 1..Len(e) :
                 /\ e[k] = "@"
                 /\ \A j \in 1..(k - 1) : e[j] # "@"
                 /\ SubSeq(e, k + 1, Len(e)) = Lower(args.domain)

\* What holds of the code for C3: the same for every domain without '@',
\* leet-mapped letters in the domain included.
C3_LeetKeepsDomainWithoutAt ==
    "@" \in Range(args.domain) \/ C3_LeetKeepsDomain

\* ---- C4 -----------------------------------------------------------------
\* C4 as claimed: an empty first or last name makes generate_usernames and
\* generate_email_variants fail with InvalidInput, never an indexing fault.
C4_EmptyNameIsInvalidInput ==
    (pc = "done" /\ (args.first = <<>> \/ args.last = <<>>)) =>
        /\ out.kind = "raise"
        /\ out.exc = "InvalidInput"

\* What holds of the code for C4: the failure is the indexing fault.
C4_EmptyNameIsIndexError ==
    (pc = "done" /\ (args.first = <<>> \/ args.last = <<>>)) =>
        /\ out.kind = "raise"
        /\ out.exc = "IndexError"

(***************************************************************************)
(* smartpassgen.py: generate_username_variations, generate_password_list   *)
(***************************************************************************)
MaxTokenLen == 2

\* The characters str.strip() and str.split() treat as whitespace.
IsSpace(c) == c \in {" ", "\t", "\n", "\r", "\f"}

\* str.strip(): leading and trailing whitespace removed.
Strip(s) ==
    IF \A i \in 1..Len(s) : IsSpace(s[i]) THEN <<>>
    ELSE LET a == CHOOSE i \in 1..Len(s) :
                     ~IsSpace(s[i]) /\ \A j \in 1..(i - 1) : IsSpace(s[j])
             b == CHOOSE i \in 1..Len(s) :
                     ~IsSpace(s[i]) /\ \A j \in (i + 1)..Len(s) : IsSpace(s[j])
         IN  SubSeq(s, a, b)

\* `if year:` and the like: None and "" are both false and every use of the
\* value is guarded by the test, so an absent option is modelled as "".
Truthy(s) == s # <<>>

\* Faulty variant: the base + "!" + year line is missing.
VariationsOfBaseNoBangYear(base, year) ==
    { base, base \o <<"1">>, base \o <<"1", "2", "3">>, base \o <<"!">>,
      base \o <<"@", "1", "2", "3">> }
    \cup (IF Truthy(year)
          THEN { base \o year, base \o <<"@">> \o year }
          ELSE {})

\* The body of `for base in cases`.
VariationsOfBase(base, year) ==
    { base, base \o <<"1">>, base \o <<"1", "2", "3">>, base \o <<"!">>,
      base \o <<"@", "1", "2", "3">> }
    \cup (IF Truthy(year)
          THEN { base \o year, base \o <<"!">> \o year, base \o <<"@">> \o year }
          ELSE {})

generate_username_variations(username0, year) ==
    LET username == Strip(username0) IN
    IF ~Truthy(username) THEN {}
    ELSE LET cases == { Lower(username), Upper(username), Capitalize(username) }
         IN  UNION { VariationsOfBase(base, year) : base \in cases }

COMMON_PASSWORDS ==
    << <<"S","u","m","m","e","r">>,
       <<"W","i","n","t","e","r">>,
       <<"S","p","r","i","n","g">>,
       <<"A","u","t","u","m","n">>,
       <<"F","a","l","l">>,
       <<"P","a","s","s","w","o","r","d">>,
       <<"W","e","l","c","o","m","e">>,
       <<"A","d","m","i","n">>,
       <<"Q","w","e","r","t","y">>,
       <<"L","e","t","m","e","i","n">> >>

EXTRA_COMMON_PASSWORDS ==
    << <<"1","2","3","4","5","6">>,
       <<"1","2","3","4","5","6","7","8","9">>,
       <<"1","2","3","4","5">>,
       <<"1","2","3","4","5","6","7","8">>,
       <<"1","2","3","4","5","6","7">>,
       <<"1","2","3","1","2","3">>,
       <<"1","1","1","1","1","1">>,
       <<"1","2","3","3","2","1">>,
       <<"q","w","e","r","t","y">>,
       <<"q","w","e","r","t","y","1","2","3">>,
       <<"1","q","2","w","3","e","4","r">>,
       <<"a","b","c","1","2","3">>,
       <<"p","a","s","s","w","o","r","d","1">>,
       <<"a","d","m","i","n","1","2","3">>,
       <<"l","e","t","m","e","i","n","1","2","3">>,
       <<"w","e","l","c","o","m","e","1">>,
       <<"w","e","l","c","o","m","e","1","2","3">>,
       <<"i","l","o","v","e","y","o","u">>,
       <<"p","r","i","n","c","e","s","s">>,
       <<"s","u","n","s","h","i","n","e">>,
       <<"f","o","o","t","b","a","l","l">>,
       <<"b","a","s","e","b","a","l","l">>,
       <<"d","r","a","g","o","n">>,
       <<"m","o","n","k","e","y">>,
       <<"s","h","a","d","o","w">>,
       <<"s","u","p","e","r","m","a","n">>,
       <<"b","a","t","m","a","n">>,
       <<"t","r","u","s","t","n","o","1">>,
       <<"p","a","s","s","w","0","r","d">>,
       <<"f","r","e","e","d","o","m">>,
       <<"s","t","a","r","w","a","r","s">>,
       <<"w","h","a","t","e","v","e","r">>,
       <<"q","a","z","w","s","x">>,
       <<"z","a","q","1","2","w","s","x">>,
       <<"q","w","e","r","t","y","u","i","o","p">>,
       <<"a","s","d","f","g","h","j","k","l">>,
       <<"1","q","a","z","2","w","s","x">>,
       <<"p","o","k","e","m","o","n">>,
       <<"6","9","6","9","6","9">>,
       <<"b","u","s","t","e","r">>,
       <<"j","o","r","d","a","n","2","3">>,
       <<"h","a","r","l","e","y">>,
       <<"g","i","n","g","e","r">>,
       <<"b","u","s","t","e","r","1","2","3">>,
       <<"s","a","m","s","u","n","g">>,
       <<"m","u","s","t","a","n","g">>,
       <<"h","u","n","t","e","r">>,
       <<"k","i","l","l","e","r">>,
       <<"p","e","p","p","e","r">>,
       <<"s","e","c","r","e","t">>,
       <<"c","h","e","e","s","e">>,
       <<"c","o","m","p","u","t","e","r">>,
       <<"m","i","c","h","e","l","l","e">>,
       <<"d","a","n","i","e","l">>,
       <<"a","s","h","l","e","y">>,
       <<"b","u","s","t","e","r","1">>,
       <<"s","c","o","o","t","e","r">>,
       <<"m","a","g","g","i","e">>,
       <<"p","e","p","p","e","r","1","2","3">>,
       <<"p","a","s","s","1","2","3">>,
       <<"h","e","l","l","o","1","2","3">>,
       <<"t","i","g","g","e","r">>,
       <<"c","h","a","r","l","i","e">>,
       <<"s","n","o","o","p","y">>,
       <<"b","a","n","a","n","a">>,
       <<"f","u","c","k","y","o","u">>,
       <<"m","i","c","h","a","e","l">>,
       <<"j","e","s","s","i","c","a">>,
       <<"l","o","v","e","l","y">>,
       <<"c","o","o","k","i","e">>,
       <<"s","o","c","c","e","r">>,
       <<"h","o","t","t","i","e">>,
       <<"w","h","a","t","e","v","e","r","1","2","3">>,
       <<"j","o","r","d","a","n">>,
       <<"m","a","t","t","h","e","w">>,
       <<"b","u","s","t","e","r","1","2">>,
       <<"p","e","p","p","e","r","1">>,
       <<"s","a","m","s","u","n","g","1","2","3">>,
       <<"d","r","a","g","o","n","1","2","3">>,
       <<"f","r","e","e","d","o","m","1">>,
       <<"q","w","e","r","t","y","2","0","2","2">>,
       <<"m","o","n","k","e","y","1","2","3">>,
       <<"n","i","n","j","a">>,
       <<"m","a","t","r","i","x">>,
       <<"g","e","o","r","g","e">>,
       <<"c","h","o","c","o","l","a","t","e">>,
       <<"p","e","p","p","e","r","o","n","i">>,
       <<"h","o","c","k","e","y">>,
       <<"g","i","n","g","e","r","1","2","3">>,
       <<"p","o","k","e","m","o","n","1","2","3">>,
       <<"i","l","o","v","e","y","o","u","1","2","3">>,
       <<"p","r","i","n","c","e","s","s","1","2","3">>,
       <<"t","a","y","l","o","r">>,
       <<"p","h","o","e","n","i","x">>,
       <<"b","a","b","y","g","i","r","l">> >>

\* The returned list is sorted(all_passwords): a sorted list without
\* repetitions is determined by its set of elements, which is what is kept.
generate_password_list(usernames, year, include_extra, leet) ==
    LET base   == Range(COMMON_PASSWORDS)
        yeared == IF Truthy(year)
                  THEN { pwd \o year : pwd \in Range(COMMON_PASSWORDS) } ELSE {}
        extra  == IF include_extra
                  THEN Range(EXTRA_COMMON_PASSWORDS)
                       \cup (IF Truthy(year)
                             THEN { pwd \o year : pwd \in Range(EXTRA_COMMON_PASSWORDS) }
                             ELSE {})
                  ELSE {}
        users  == UNION { generate_username_variations(usernames[i], year) :
                            i \in 1..Len(usernames) }
        all_passwords == base \cup yeared \cup extra \cup users
    IN  IF leet
        THEN all_passwords \cup UNION { generate_leet_variations(pwd) : pwd \in all_passwords }
        ELSE all_passwords

\* main, line 162: [line.strip() for line in f if line.strip()]
ReadUsernames(lines) ==
    LET keep == { i \in 1..Len(lines) : Truthy(Strip(lines[i])) }
        nth(k) == CHOOSE i \in keep : Cardinality({ j \in keep : j < i }) = k - 1
    IN  [k \in 1..Cardinality(keep) |-> Strip(lines[nth(k)])]

TokenAlphabet == {"b", "O", "7", " "}

RawLines == SeqsUpTo(TokenAlphabet, MaxTokenLen + 1)

\* The usernames main hands on: stripped, non-empty lines of the input file.
Tokens == { ReadUsernames(<<l>>)[1] : l \in { r \in RawLines : Truthy(Strip(r)) } }

Years == { <<>>, <<"9">>, <<"2", "1">> }

InitVariations ==
    /\ pc = "call"
    /\ args \in [username : Tokens, year : Years]
    /\ out = NoResult
    /\ Idle

CallVariations ==
    /\ pc = "call"
    /\ out' = Return(generate_username_variations(args.username, args.year))
    /\ pc' = "done"
    /\ UNCHANGED args
    /\ IdleUnchanged

SpecVariations == InitVariations /\ [][CallVariations]_vars

\* ---- C9 -----------------------------------------------------------------
\* The three bases of the claim: lower(t), upper(t), and t with its first
\* letter in upper case and no other letter in upper case.
C9_Bases(t) ==
    { [i \in 1..Len(t) |-> LowerChar(t[i])],
      [i \in 1..Len(t) |-> UpperChar(t[i])],
      [i \in 1..Len(t) |-> IF i = 1 THEN UpperChar(t[1]) ELSE LowerChar(t[i])] }

\* The suffixes of the claim; a year is supplied when it is a non-empty string.
C9_Suffixes(y) ==
    { <<>>, <<"1">>, <<"1", "2", "3">>, <<"!">>, <<"@", "1", "2", "3">> }
    \cup (IF y # <<>> THEN { y, <<"!">> \o y, <<"@">> \o y } ELSE {})

\* C9: for a non-blank token t and optional year y,
\* generate_username_variations(t, y) is exactly { b + s } with b among the
\* three case forms of t and s among "", "1", "123", "!", "@123" and, only
\* with a year, y, "!"+y, "@"+y.
C9_VariationsExact ==
    pc = "done" =>
        /\ out.kind = "return"
        /\ out.val = { b \o s : b \in C9_Bases(args.username),
                                s \in C9_Suffixes(args.year) }

\* A mixed-case token with a year: "bO" and "21" give "Bo!21" and "BO@21".
C9_Witness ==
    /\ pc = "done"
    /\ args.username = <<"b", "O">>
    /\ args.year = <<"2", "1">>
    /\ <<"B", "o", "!", "2", "1">> \in out.val
    /\ <<"B", "O", "@", "2", "1">> \in out.val
    /\ Cardinality(out.val) = 24

(***************************************************************************)
(* The three generators with an option to switch on                        *)
(***************************************************************************)
UsernameLists == { <<>>, << <<"b", "O">> >>, << <<"a">>, <<"s", "t">> >> }

PasswordListCalls ==
    [fn : {"generate_password_list"}, usernames : UsernameLists, year : Years,
     include_extra : BOOLEAN, leet : BOOLEAN]

InitOptions ==
    /\ pc = "call"
    /\ args \in UsernameCalls \cup EmailCalls \cup PasswordListCalls
    /\ out = NoResult
    /\ Idle

CallPasswordList ==
    /\ pc = "call"
    /\ args.fn = "generate_password_list"
    /\ out' = Return(generate_password_list(args.usernames, args.year,
                                            args.include_extra, args.leet))
    /\ pc' = "done"
    /\ UNCHANGED args
    /\ IdleUnchanged

NextOptions == CallUsernames \/ CallEmails \/ CallPasswordList

SpecOptions == InitOptions /\ [][NextOptions]_vars

\* ---- C6 -----------------------------------------------------------------
\* The outcome of the same call with leet switched on.
C6_WithLeet ==
    CASE args.fn = "generate_usernames" ->
            generate_usernames(args.first, args.last, TRUE)
      [] args.fn = "generate_email_variants" ->
            generate_email_variants(args.first, args.last, args.domain, TRUE)
      [] OTHER ->
            Return(generate_password_list(args.usernames, args.year,
                                          args.include_extra, TRUE))

\* C6 as claimed: whatever a generator returns with an option off, it
\* returns a superset with the option on (leet for all three, include_extra
\* for generate_password_list).
C6_OptionsOnlyAdd ==
    (pc = "done" /\ out.kind = "return") =>
        /\ ~args.leet =>
              /\ C6_WithLeet.kind = "return"
              /\ out.val \subseteq C6_WithLeet.val
        /\ (args.fn = "generate_password_list" /\ ~args.include_extra) =>
              out.val \subseteq generate_password_list(args.usernames, args.year,
                                                       TRUE, args.leet)

\* What holds of the code for C6: the same, for every call but
\* generate_email_variants with an '@' in the domain.
C6_OptionsOnlyAddElsewhere ==
    (args.fn = "generate_email_variants" /\ "@" \in Range(args.domain))
        \/ C6_OptionsOnlyAdd

(***************************************************************************)
(* smartpassgen.py: generate_passwords_from_mask                           *)
(***************************************************************************)
MaxMaskLen == 4

MASK_SETS ==
    (<<"?", "u">> :> ascii_uppercase) @@ (<<"?", "l">> :> ascii_lowercase) @@
    (<<"?", "d">> :> digits) @@
    (<<"?", "s">> :> <<"!", "@", "#", "$", "%", "^", "&", "*">>)

\* Faulty variant: after a class token the index advances by one, so the class
\* letter is parsed again as a literal.
RECURSIVE MaskPartsStepOne(_, _)
MaskPartsStepOne(mask, i) ==
    IF i > Len(mask) THEN <<>>
    ELSE IF /\ mask[i] = "?"
            /\ i + 1 <= Len(mask)
            /\ SubSeq(mask, i, i + 1) \in DOMAIN MASK_SETS
         THEN <<MASK_SETS[SubSeq(mask, i, i + 1)]>> \o MaskPartsStepOne(mask, i + 1)
         ELSE << <<mask[i]>> >> \o MaskPartsStepOne(mask, i + 1)

\* Faulty variant: a '?' with a following character always consumes both, and the
\* character after an unrecognised '?' is dropped.
RECURSIVE MaskPartsSkipBoth(_, _)
MaskPartsSkipBoth(mask, i) ==
    IF i > Len(mask) THEN <<>>
    ELSE IF mask[i] = "?" /\ i + 1 <= Len(mask)
         THEN (IF SubSeq(mask, i, i + 1) \in DOMAIN MASK_SETS
               THEN <<MASK_SETS[SubSeq(mask, i, i + 1)]>>
               ELSE << <<mask[i]>> >>) \o MaskPartsSkipBoth(mask, i + 2)
         ELSE << <<mask[i]>> >> \o MaskPartsSkipBoth(mask, i + 1)

\* The while loop building `parts`, from index i (1-based) on: a '?' and the
\* next character that form a key of MASK_SETS give that class and advance
\* by two; anything else gives the one character and advances by one.
RECURSIVE MaskParts(_, _)
MaskParts(mask, i) ==
    IF i > Len(mask) THEN <<>>
    ELSE IF /\ mask[i] = "?"
            /\ i + 1 <= Len(mask)
            /\ SubSeq(mask, i, i + 1) \in DOMAIN MASK_SETS
         THEN <<MASK_SETS[SubSeq(mask, i, i + 1)]>> \o MaskParts(mask, i + 2)
         ELSE << <<mask[i]>> >> \o MaskParts(mask, i + 1)

\* The generator's items in the order they are yielded.
generate_passwords_from_mask(mask) == Product(MaskParts(mask, 1))

MaskAlphabet == {"?", "u", "l", "d", "s", "x"}

\* The example of the docstring's kind with three classes.
ExampleMasks == { <<"?", "u", "?", "l", "?", "d">> }

Masks == SeqsUpTo(MaskAlphabet, MaxMaskLen) \cup ExampleMasks

InitMask ==
    /\ pc = "call"
    /\ args \in [mask : Masks]
    /\ out = NoResult
    /\ Idle

CallMask ==
    /\ pc = "call"
    /\ out' = Return(generate_passwords_from_mask(args.mask))
    /\ pc' = "done"
    /\ UNCHANGED args
    /\ IdleUnchanged

SpecMask == InitMask /\ [][CallMask]_vars

\* ---- C7 -----------------------------------------------------------------
\* A class token starts at i: a '?' followed by one of u, l, d, s.
C7_ClassStart(mask, i) ==
    /\ i < Len(mask)
    /\ mask[i] = "?"
    /\ mask[i + 1] \in {"u", "l", "d", "s"}

\* The indices where a token starts: all but the letter of a class token.
C7_TokenStarts(mask) ==
    { i \in 1..Len(mask) : ~(i > 1 /\ C7_ClassStart(mask, i - 1)) }

\* The index where the k-th token starts.
C7_Start(mask, k) ==
    CHOOSE i \in C7_TokenStarts(mask) :
        Cardinality({ j \in C7_TokenStarts(mask) : j < i }) = k - 1

\* The characters allowed by the token that starts at i.
C7_Class(mask, i) ==
    IF C7_ClassStart(mask, i)
    THEN CASE mask[i + 1] = "u" -> Range(ascii_uppercase)
           [] mask[i + 1] = "l" -> Range(ascii_lowercase)
           [] mask[i + 1] = "d" -> Range(digits)
           [] OTHER -> {"!", "@", "#", "$", "%", "^", "&", "*"}
    ELSE { mask[i] }

\* The sizes the claim gives: 26, 26, 10, 8, and 1 for a literal.
C7_Size(mask, i) ==
    IF C7_ClassStart(mask, i)
    THEN CASE mask[i + 1] \in {"u", "l"} -> 26
           [] mask[i + 1] = "d" -> 10
           [] OTHER -> 8
    ELSE 1

RECURSIVE C7_SizeProduct(_, _)
C7_SizeProduct(mask, starts) ==
    IF starts = {} THEN 1
    ELSE LET i == CHOOSE j \in starts : TRUE
         IN  C7_Size(mask, i) * C7_SizeProduct(mask, starts \ {i})

\* C7: the mask yields a finite sequence without repetition whose length is
\* the product of the token sizes; every string has one character per
\* token, each in its token's class or equal to its literal.
C7_MaskProduct ==
    pc = "done" =>
        LET mask   == args.mask
            starts == C7_TokenStarts(mask)
            n      == Cardinality(starts)
        IN  /\ out.kind = "return"
            /\ Len(out.val) = C7_SizeProduct(mask, starts)
            /\ Cardinality(Range(out.val)) = Len(out.val)
            /\ \A w \in Range(out.val) :
                  /\ Len(w) = n
                  /\ \A k \in 1..n : w[k] \in C7_Class(mask, C7_Start(mask, k))

\* ?u?l?d: 26 * 26 * 10 strings of length 3, "Zz9" the last one yielded.
C7_Witness ==
    /\ pc = "done"
    /\ args.mask = <<"?", "u", "?", "l", "?", "d">>
    /\ Len(out.val) = 6760
    /\ out.val[6760] = <<"Z", "z", "9">>

\* ---- C8 -----------------------------------------------------------------
\* A '?' at i that starts no class token.
C8_LoneQuestion(mask, i) == mask[i] = "?" /\ ~C7_ClassStart(mask, i)

\* Where the character at index i lands in a generated string, when a token
\* starts at i: every class token before it takes two characters for one.
C8_Pos(mask, i) ==
    i - Cardinality({ j \in 1..(i - 1) : C7_ClassStart(mask, j) })

\* C8 as claimed: parsing never fails; a '?' not followed by u, l, d or s
\* and the character after it are both fixed literals of every generated
\* string, the latter never starting a class token; a final '?' is one
\* literal '?'.
C8_LoneQuestionTakesNext ==
    pc = "done" =>
        /\ out.kind = "return"
        /\ \A i \in 1..Len(args.mask) :
              C8_LoneQuestion(args.mask, i) =>
                 \A w \in Range(out.val) :
                    /\ w[C8_Pos(args.mask, i)] = "?"
                    /\ IF i = Len(args.mask)
                       THEN Len(w) = C8_Pos(args.mask, i)
                       ELSE /\ Len(w) > C8_Pos(args.mask, i)
                            /\ w[C8_Pos(args.mask, i) + 1] = args.mask[i + 1]

\* C8 amended: parsing never fails; a '?' not followed by u, l, d or s is
\* one fixed literal '?' of every generated string and the character after
\* it is parsed afresh: it is a fixed literal too unless it is itself a '?'
\* followed by u, l, d or s, and then it starts a class token whose
\* character comes right after the literal '?'; a final '?' is one literal
\* '?'.
C8_LoneQuestionIsOneLiteral ==
    pc = "done" =>
        /\ out.kind = "return"
        /\ \A i \in 1..Len(args.mask) :
              C8_LoneQuestion(args.mask, i) =>
                 \A w \in Range(out.val) :
                    /\ w[C8_Pos(args.mask, i)] = "?"
                    /\ IF i = Len(args.mask)
                       THEN Len(w) = C8_Pos(args.mask, i)
                       ELSE /\ Len(w) > C8_Pos(args.mask, i)
                            /\ IF C7_ClassStart(args.mask, i + 1)
                               THEN w[C8_Pos(args.mask, i) + 1]
                                       \in C7_Class(args.mask, i + 1)
                               ELSE w[C8_Pos(args.mask, i) + 1] = args.mask[i + 1]

\* "??s?": a lone '?' before a class token and a final lone '?'; eight
\* strings, the first "?!?".
C8_Witness ==
    /\ pc = "done"
    /\ args.mask = <<"?", "?", "s", "?">>
    /\ Len(out.val) = 8
    /\ out.val[1] = <<"?", "!", "?">>

(***************************************************************************)
(* generate_usernames.py: process_file                                     *)
(***************************************************************************)
MaxLines == 3

MaxLineLen == 3

\* str.replace("\r", "")
RemoveCR(s) ==
    LET keep == { i \in 1..Len(s) : s[i] # "\r" }
        nth(k) == CHOOSE i \in keep : Cardinality({ j \in keep : j < i }) = k - 1
    IN  [k \in 1..Cardinality(keep) |-> s[nth(k)]]

\* str.split() without argument: the maximal runs of non-whitespace, from
\* the left.
RECURSIVE Split(_)
Split(s) ==
    IF \A i \in 1..Len(s) : IsSpace(s[i]) THEN <<>>
    ELSE LET a == CHOOSE i \in 1..Len(s) :
                     ~IsSpace(s[i]) /\ \A j \in 1..(i - 1) : IsSpace(s[j])
             rest == SubSeq(s, a, Len(s))
             e == IF \A i \in 1..Len(rest) : ~IsSpace(rest[i]) THEN Len(rest)
                  ELSE (CHOOSE i \in 1..Len(rest) :
                           IsSpace(rest[i]) /\ \A j \in 1..(i - 1) : ~IsSpace(rest[j])) - 1
         IN  <<SubSeq(rest, 1, e)>> \o Split(SubSeq(rest, e + 1, Len(rest)))

\* Faulty variant: an invalid line ends the loop.
InvalidLineBreaks == "after_loop"

\* `continue` on a line with fewer than two parts: the loop goes on.
InvalidLineGoesTo == "loop"

\* One pass of the loop body on a line, up to the point it leaves the body:
\*   blank    the stripped line is empty
\*   invalid  fewer than two parts
\*   raise    generate_email_variants raised, after all_usernames took the
\*            usernames
\*   ok       the end of the body is reached
\* with the strings added to all_usernames and the messages of a verbose run.
ProcessLine(raw, line_no, leet, domain) ==
    LET line  == RemoveCR(Strip(raw))
        parts == Split(line)
    IN  IF ~Truthy(line)
        THEN [ctl |-> "blank", add |-> {}, exc |-> "", log |-> <<>>]
        ELSE IF Len(parts) < 2
        THEN [ctl |-> "invalid", add |-> {}, exc |-> "",
              log |-> << <<"[!] Skipping invalid line", line_no>> >>]
        ELSE LET first == parts[1]
                 last  == parts[Len(parts)]
                 usernames == generate_usernames(first, last, leet)
                 emails == generate_email_variants(first, last, domain, leet)
             IN  IF usernames.kind = "raise"
                 THEN [ctl |-> "raise", add |-> {}, exc |-> usernames.exc, log |-> <<>>]
                 ELSE IF ~Truthy(domain)
                 THEN [ctl |-> "ok", add |-> usernames.val, exc |-> "",
                       log |-> << <<"[+] usernames", Cardinality(usernames.val)>> >>]
                 ELSE IF emails.kind = "raise"
                 THEN [ctl |-> "raise", add |-> usernames.val, exc |-> emails.exc,
                       log |-> << <<"[+] usernames", Cardinality(usernames.val)>> >>]
                 ELSE [ctl |-> "ok", add |-> usernames.val \cup emails.val, exc |-> "",
                       log |-> << <<"[+] usernames", Cardinality(usernames.val)>>,
                                  <<"Added email variants", Cardinality(emails.val)>> >>]

FileAlphabet == {"a", " "}

\* Lines with a middle name, with upper case, with runs of blanks and the
\* line end, with a tab between the names, and with one name only.
ExampleLines ==
    { <<"a", " ", "d", " ", "E">>,
      <<" ", "E", "a", " ", " ", "d", "\n">>,
      <<"E", "\t", "a", "\n">>,
      <<"E", "\n">> }

\* A line as the text-mode file yields it: universal newlines leave no
\* "\r" inside a line.
FileLines == SeqsUpTo(FileAlphabet, MaxLineLen) \cup ExampleLines

FileDomains == { <<>>, <<"x">>, <<"@", "e">> }

\* ---- C10: what the batch owes -------------------------------------------
\* The tokens of a line, stated on the line itself: a token starts at a
\* non-blank character that is first or follows a blank one, and ends
\* before the next blank one.
C10_TokenStarts(raw) ==
    { i \in 1..Len(raw) : ~IsSpace(raw[i]) /\ (i = 1 \/ IsSpace(raw[i - 1])) }

C10_TokenEnds(raw) ==
    { i \in 1..Len(raw) : ~IsSpace(raw[i]) /\ (i = Len(raw) \/ IsSpace(raw[i + 1])) }

C10_Min(S) == CHOOSE x \in S : \A y \in S : x <= y

C10_Max(S) == CHOOSE x \in S : \A y \in S : y <= x

C10_FirstToken(raw) ==
    SubSeq(raw, C10_Min(C10_TokenStarts(raw)), C10_Min(C10_TokenEnds(raw)))

C10_LastToken(raw) ==
    SubSeq(raw, C10_Max(C10_TokenStarts(raw)), C10_Max(C10_TokenEnds(raw)))

\* What the batch owes for a line with two tokens or more.
C10_VariantsOwed(raw, leet, domain) ==
    generate_usernames(C10_FirstToken(raw), C10_LastToken(raw), leet).val
    \cup (IF domain # <<>>
          THEN generate_email_variants(C10_FirstToken(raw), C10_LastToken(raw), domain, leet).val
          ELSE {})

C10_Record(h, raw, leet, domain) ==
    LET n == Cardinality(C10_TokenStarts(raw)) IN
    [expected |-> IF n >= 2 THEN h.expected \cup C10_VariantsOwed(raw, leet, domain)
                  ELSE h.expected,
     nvalid   |-> IF n >= 2 THEN h.nvalid + 1 ELSE h.nvalid,
     skipped  |-> h.skipped \/ n = 1,
     resumed  |-> h.resumed \/ (h.skipped /\ n >= 2),
     eof      |-> h.eof]

InitFile ==
    /\ pc = "start"
    /\ args \in [exists : BOOLEAN, leet : BOOLEAN, domain : FileDomains,
                 verbose : BOOLEAN]
    /\ out = NoResult
    /\ Idle

\* Lines 89-95.
OpenInput ==
    /\ pc = "start"
    /\ IF args.exists
       THEN /\ pc' = "loop"
            /\ stdout' = stdout
       ELSE /\ pc' = "done"
            /\ stdout' = Append(stdout, <<"[-] Error: File not found.", 0>>)
    /\ UNCHANGED <<args, out, all_usernames, total_lines, processed_lines, hist,
                   passwords>>

\* One iteration of `for line in infile` on the next line of the file.
ReadLine ==
    /\ pc = "loop"
    /\ total_lines < MaxLines
    /\ \E raw \in FileLines :
       \E r \in { ProcessLine(raw, total_lines + 1, args.leet, args.domain) } :
          /\ total_lines' = total_lines + 1
          /\ all_usernames' = all_usernames \cup r.add
          /\ processed_lines' = IF r.ctl = "ok" THEN processed_lines + 1
                                ELSE processed_lines
          /\ stdout' = IF args.verbose THEN stdout \o r.log ELSE stdout
          /\ pc' = CASE r.ctl = "raise" -> "raised"
                     [] r.ctl = "invalid" -> InvalidLineGoesTo
                     [] OTHER -> "loop"
          /\ out' = IF r.ctl = "raise" THEN Raise(r.exc) ELSE out
          /\ hist' = C10_Record(hist, raw, args.leet, args.domain)
    /\ UNCHANGED <<args, passwords>>

\* The file has no further line.
EndOfFile ==
    /\ pc = "loop"
    /\ pc' = "after_loop"
    /\ hist' = [hist EXCEPT !.eof = TRUE]
    /\ UNCHANGED <<args, out, all_usernames, total_lines, processed_lines,
                   passwords, stdout>>

\* Lines 129-138; the file written is sorted(all_usernames), kept as its set.
WriteOutput ==
    /\ pc = "after_loop"
    /\ pc' = "done"
    /\ IF processed_lines = 0
       THEN /\ stdout' = Append(stdout, <<"[-] No valid names found in the input file.", 0>>)
            /\ out' = out
       ELSE /\ out' = Return(all_usernames)
            /\ stdout' = stdout \o << <<"[+] Processed", processed_lines>>,
                                      <<"[+] Generated", Cardinality(all_usernames)>> >>
    /\ UNCHANGED <<args, all_usernames, total_lines, processed_lines, hist, passwords>>

NextFile == OpenInput \/ ReadLine \/ EndOfFile \/ WriteOutput

SpecFile == InitFile /\ [][NextFile]_vars

\* ---- C10 ----------------------------------------------------------------
\* C10: the loop is left only at the end of the file, never at a skipped
\* line; after it, whatever lines were read, the accumulated set is the
\* union of the variants of exactly the lines with two tokens or more (first
\* and last token) and processed_lines is the number of those lines.
C10_BatchSkipsAndContinues ==
    pc \in {"after_loop", "done"} /\ args.exists =>
        /\ hist.eof
        /\ all_usernames = hist.expected
        /\ processed_lines = hist.nvalid

\* Three lines read, a one-token line skipped and a later line processed:
\* two lines counted.
C10_Witness ==
    /\ pc = "done"
    /\ total_lines = 3
    /\ hist.resumed
    /\ processed_lines = 2
    /\ out.kind = "return"
    /\ <<"a", ".", "e">> \in out.val

(***************************************************************************)
(* smartpassgen.py: main                                                   *)
(***************************************************************************)
\* The options of a run: input and output are file names ("" when the
\* option is absent), exists and lines tell what open() finds there.
MainInputs ==
    { [input |-> "", exists |-> FALSE, lines |-> <<>>],
      [input |-> "users.txt", exists |-> FALSE, lines |-> <<>>],
      [input |-> "users.txt", exists |-> TRUE, lines |-> <<>>],
      [input |-> "users.txt", exists |-> TRUE,
       lines |-> << <<" ", "b", "O", "\n">>, <<"\n">>, <<"a", "t", "\n">> >>] }

MainMasks == { <<>>, <<"?", "d">>, <<"x", "?", "s", "?">> }

MainArgs ==
    { [input |-> f.input, exists |-> f.exists, lines |-> f.lines, output |-> o,
       year |-> y, extra |-> e, leet |-> l, mask |-> m] :
         f \in MainInputs, o \in {"", "out.txt"}, y \in {<<>>, <<"9">>},
         e \in BOOLEAN, l \in BOOLEAN, m \in MainMasks }

InitMain ==
    /\ pc = "start"
    /\ args \in MainArgs
    /\ out = NoResult
    /\ Idle

\* Lines 157-166: on FileNotFoundError the message is printed and main
\* returns.
ReadInput ==
    /\ pc = "start"
    /\ IF args.input = ""
       THEN /\ pc' = "mask"
            /\ UNCHANGED <<passwords, stdout>>
       ELSE IF ~args.exists
       THEN /\ pc' = "done"
            /\ stdout' = Append(stdout, "[!] Input file not found.")
            /\ UNCHANGED passwords
       ELSE /\ pc' = "mask"
            /\ passwords' = passwords \cup
                 generate_password_list(ReadUsernames(args.lines), args.year,
                                        args.extra, args.leet)
            /\ UNCHANGED stdout
    /\ UNCHANGED <<args, out, all_usernames, total_lines, processed_lines, hist>>

\* Lines 168-169.
ExpandMask ==
    /\ pc = "mask"
    /\ pc' = "emit"
    /\ passwords' = IF Truthy(args.mask)
                    THEN passwords \cup Range(generate_passwords_from_mask(args.mask))
                    ELSE passwords
    /\ UNCHANGED <<args, out, stdout, all_usernames, total_lines, processed_lines,
                   hist>>

\* Lines 171-182: what is written to the output file or printed is
\* sorted(passwords), kept as its set in out.
Emit ==
    /\ pc = "emit"
    /\ pc' = "done"
    /\ IF passwords = {}
       THEN /\ stdout' = Append(stdout, "[!] No passwords generated.")
            /\ out' = out
       ELSE /\ out' = Return(passwords)
            /\ stdout' = IF args.output # ""
                         THEN Append(stdout, "[+] Generated passwords and saved.")
                         ELSE stdout
    /\ UNCHANGED <<args, passwords, all_usernames, total_lines, processed_lines,
                   hist>>

NextMain == ReadInput \/ ExpandMask \/ Emit

SpecMain == InitMain /\ [][NextMain]_vars

\* ---- C5 -----------------------------------------------------------------
\* C5 as claimed: when the input file is given but cannot be opened and a
\* mask is given, the run reports the missing file and still emits the
\* mask-generated passwords.
C5_MaskSurvivesMissingFile ==
    (pc = "done" /\ args.input # "" /\ ~args.exists /\ Truthy(args.mask)) =>
        /\ "[!] Input file not found." \in Range(stdout)
        /\ out.kind = "return"
        /\ Range(generate_passwords_from_mask(args.mask)) \subseteq out.val

\* What holds of the code for C5: after a missing input file nothing is
\* emitted, mask or not.
C5_MissingFileEndsRun ==
    (pc = "done" /\ args.input # "" /\ ~args.exists) =>
        /\ "[!] Input file not found." \in Range(stdout)
        /\ out.kind = "none"
        /\ passwords = {}

(***************************************************************************)
(* All runs together                                                       *)
(***************************************************************************)
Init ==
    InitLeet \/ InitOptions \/ InitVariations \/ InitMask \/ InitFile \/ InitMain

Next ==
    \/ (pc = "call" /\ "password" \in DOMAIN args /\ CallLeet)
    \/ (pc = "call" /\ "fn" \in DOMAIN args /\ NextOptions)
    \/ (pc = "call" /\ "username" \in DOMAIN args /\ CallVariations)
    \/ (pc = "call" /\ "mask" \in DOMAIN args /\ ~("input" \in DOMAIN args) /\ CallMask)
    \/ ("verbose" \in DOMAIN args /\ NextFile)
    \/ ("input" \in DOMAIN args /\ NextMain)

Spec == Init /\ [][Next]_vars

====
